---- MODULE Spec2Model ----
(***************************************************************************)
(* Model of ddosify's scenario service (ScenarioService: requester pool,   *)
(* Do, sleepers) and of the stdout report service (Start, the live print   *)
(* task, the done channel), both from src/core/report/stdout.go.           *)
(*                                                                         *)
(* The state machines of the module:                                       *)
(*   Spec       the scenario service called by one goroutine: Do calls one *)
(*              after the other, with the outcome of each kept in lastDo,  *)
(*              and Done calls between them, kept in lastDone              *)
(*   PoolSpec   the scenario service called by concurrent goroutines       *)
(*   SleepSpec  newSleeper and Sleeper.sleep over bounded sleep strings    *)
(*   RepSpec    the stdout reporter (FairRepSpec adds scheduling fairness) *)
(***************************************************************************)
EXTENDS Integers, Sequences, FiniteSets, TLC

(***************************************************************************)
(* Bounds of the model.                                                    *)
(***************************************************************************)
MaxSteps == 2
NumProxies == 1
MaxSleepLen == 4
MaxResults == 2
MaxTicks == 2
ChanCap == 1

Proxies == 1..NumProxies
\* The goroutines that call Do: Caller, alone, in Spec, whose calls lastDo
\* records; the Runners, concurrently, in PoolSpec.
Runners == {"g1", "g2"}
Caller == "g0"
Goroutines == Runners \cup {Caller}
NoRunner == "none"

(***************************************************************************)
(* types.RequestError.Type values the code distinguishes. ErrorNone is the *)
(* zero value of a successful step; ErrorConn stands for every other kind. *)
(***************************************************************************)
ErrorNone == ""
ErrorProxy == "proxyError"
ErrorIntented == "intentedError"
ErrorUnkown == "unknownError"
ErrorConn == "connError"
SendErrTypes == {ErrorNone, ErrorProxy, ErrorIntented, ErrorConn}

NilError == [Type |-> "nil", step |-> 0]

(***************************************************************************)
(* Strings are sequences of one-character strings: "3-1" is <<"3","-","1">>*)
(***************************************************************************)
DigitVal(c) ==
    CASE c = "0" -> 0 [] c = "1" -> 1 [] c = "2" -> 2 [] c = "3" -> 3
      [] c = "4" -> 4 [] c = "5" -> 5 [] c = "6" -> 6 [] c = "7" -> 7
      [] c = "8" -> 8 [] c = "9" -> 9 [] OTHER -> -1

RECURSIVE AtoiFrom(_, _, _)
AtoiFrom(s, i, acc) ==
    IF i > Len(s) THEN acc
    ELSE IF DigitVal(s[i]) < 0 THEN 0
    ELSE AtoiFrom(s, i + 1, acc * 10 + DigitVal(s[i]))

\* strconv.Atoi with the error dropped: 0 for "" and for any non-number.
Atoi(s) == IF s = <<>> THEN 0 ELSE AtoiFrom(s, 1, 0)

RECURSIVE SplitFrom(_, _, _, _, _)
SplitFrom(s, sep, i, cur, parts) ==
    IF i > Len(s) THEN Append(parts, cur)
    ELSE IF s[i] = sep THEN SplitFrom(s, sep, i + 1, <<>>, Append(parts, cur))
    ELSE SplitFrom(s, sep, i + 1, Append(cur, s[i]), parts)

\* strings.Split(s, sep) for a one-character separator.
Split(s, sep) == SplitFrom(s, sep, 1, <<>>, <<>>)

NilSleeper == [type |-> "nil"]

newSleeperNoSwap(sleepStr) ==
    IF sleepStr = <<>> THEN NilSleeper
    ELSE LET s == Split(sleepStr, "-")
         IN IF Len(s) = 2
            THEN [type |-> "RangeSleep", min |-> Atoi(s[1]), max |-> Atoi(s[2])]
            ELSE [type |-> "DurationSleep", duration |-> Atoi(s[1])]

newSleeper(sleepStr) ==
    IF sleepStr = <<>> THEN NilSleeper
    ELSE LET s == Split(sleepStr, "-")
         IN IF Len(s) = 2
            THEN LET min == Atoi(s[1])
                     max == Atoi(s[2])
                 IN IF min > max
                    THEN [type |-> "RangeSleep", min |-> max, max |-> min]
                    ELSE [type |-> "RangeSleep", min |-> min, max |-> max]
            ELSE [type |-> "DurationSleep", duration |-> Atoi(s[1])]

\* rand.Intn(n): some r with 0 <= r < n (it panics, returning nothing, for n <= 0).
Intn(n) == 0..(n - 1)

\* RangeSleep.sleep, line 453: the durations dur it can draw.
RangeSleepDurations(rs) == {r + rs.min : r \in Intn(rs.max - rs.min + 1)}

\* DurationSleep.sleep
DurationSleepDurations(ds) == {ds.duration}

\* The milliseconds one sleep() call of sleeper sl can block for.
SleepDurations(sl) ==
    IF sl.type = "RangeSleep" THEN RangeSleepDurations(sl)
    ELSE IF sl.type = "DurationSleep" THEN DurationSleepDurations(sl)
    ELSE {}

(***************************************************************************)
(* Scenarios: 1..MaxSteps steps, each with an ID and a sleep string.       *)
(***************************************************************************)
StepSleeps == {<<>>, <<"2">>, <<"3", "-", "1">>}
StepID(i) == 10 * i
Scenarios ==
    UNION {{[i \in 1..n |-> [ID |-> StepID(i), Sleep |-> sl[i]]] :
              sl \in [1..n -> StepSleeps]} : n \in 1..MaxSteps}

VARIABLES
    \* ScenarioService
    scenario,       \* s.scenario.Steps
    clients,        \* s.clients: proxy -> sequence of scenarioItemRequester
    clientMutex,    \* s.clientMutex: NoRunner when free, else the goroutine holding it
    pc,             \* position of each goroutine calling Do
    doProxy,        \* Do's proxy argument
    createIdx,      \* createRequesters: index of the step being built
    createErr,      \* getOrCreateRequesters' err
    requesters,     \* Do's local requesters
    lastDo,         \* what the most recent Do call of Caller did and returned
    lastDone,       \* the requester.Done() calls of the most recent Done call
    \* history of the pool
    initProxies,    \* proxies given to Init
    constructed,    \* <<proxy, step index>> -> NewRequester successes
    inited,         \* <<proxy, step index>> -> Requester.Init successes
    returned,       \* getOrCreateRequesters returns: [proxy, reqs, failed]
    \* sleepers on their own
    sleepStr, sleeper, slept, sleepPc,
    \* stdout reporter
    debug,          \* s.debug
    testMode,       \* util.IsSystemInTestMode()
    input,          \* the input channel's buffer: ids of the results sent
    inputClosed,    \* close(input) was called
    sent,           \* number of results sent on input so far
    spc,            \* position of the goroutine running Start
    cur,            \* Start's r: the result received last
    mu,             \* s.mu: "free", or its holder "start" or "printer"
    result,         \* s.result: ids of the results aggregate has merged
    merging,        \* aggregate is between its first and last write
    bgpc,           \* position of the goroutine running realTimePrintStart
    printTicker,    \* s.printTicker: "nil", "running" or "stopped"
    tickC,          \* ticks waiting in s.printTicker.C (it buffers one)
    ticks,          \* ticks fired so far
    pWaiting,       \* tick print goroutines waiting for s.mu (line 116)
    ppc,            \* position of the tick print goroutine holding s.mu
    out,            \* what was printed, in order
    doneCount       \* receives from doneChan that completed

svcVars == <<scenario, clients, clientMutex, pc, doProxy, createIdx, createErr,
             requesters, lastDo, lastDone, initProxies, constructed, inited,
             returned>>
sleepVars == <<sleepStr, sleeper, slept, sleepPc>>
repVars == <<debug, testMode, input, inputClosed, sent, spc, cur, mu, result,
            merging, bgpc, printTicker, tickC, ticks, pWaiting, ppc, out,
            doneCount>>
nonSvcVars == <<sleepVars, repVars>>
vars == <<svcVars, sleepVars, repVars>>

NumSteps == Len(scenario)

\* requester.NewRequester(si): the requester of step index i for proxy p;
\* gen tells apart requesters constructed for the same step and proxy.
Requester(p, i, gen) == [proxy |-> p, step |-> i, gen |-> gen]

scenarioItemRequesterOfFirstStep(p, i, gen) ==
    [scenarioItemID |-> scenario[1].ID,
     sleeper |-> newSleeper(scenario[1].Sleep),
     requester |-> Requester(p, 1, gen)]

\* createRequesters, lines 419-423: the pool entry of step si = scenario[i].
scenarioItemRequester(p, i, gen) ==
    [scenarioItemID |-> scenario[i].ID,
     sleeper |-> newSleeper(scenario[i].Sleep),
     requester |-> Requester(p, i, gen)]

\* lastDo before any call: response and err of Do, and the Sends and sleeps
\* the call made, in order.
NoDo == [ran |-> FALSE, proxy |-> 0, nilResponse |-> TRUE,
         StepResults |-> <<>>, err |-> NilError, trace |-> <<>>]

\* lastDone before any Done call, and once a later Do call has begun.
NoDone == [ran |-> FALSE, calls |-> <<>>]

----
(***************************************************************************)
(* Do's loop over the requesters (lines 368-384), as a function of what    *)
(* each Send returns (res).                                                *)
(***************************************************************************)
ShouldSleepNoLen(sl, nSteps) == sl # NilSleeper

\* line 380
ShouldSleep(sl, nSteps) == sl # NilSleeper /\ nSteps > 1

SendEvent(i, t) == [op |-> "send", idx |-> i, res |-> t]
SleepEvent(i) == [op |-> "sleep", idx |-> i, res |-> ""]

\* Requester.Send of a requester bound to step i: a StepResult with the
\* step's ID and the error type t the requester reports.
Send(rq, t) == [StepID |-> scenario[rq.step].ID, ErrType |-> t]

RecordErrOrClear(err, r, i) ==
    IF r.ErrType \in {ErrorProxy, ErrorIntented}
    THEN [Type |-> r.ErrType, step |-> i] ELSE NilError

\* lines 370-371: err after the step at index i returned r; step tells which
\* StepResult's Err the returned pointer refers to.
RecordErr(err, r, i) ==
    IF r.ErrType \in {ErrorProxy, ErrorIntented}
    THEN [Type |-> r.ErrType, step |-> i] ELSE err

RECURSIVE DoLoopAppendFirstFrom(_, _, _, _, _)
DoLoopAppendFirstFrom(i, reqs, res, nSteps, acc) ==
    IF i > Len(reqs) THEN acc
    ELSE LET sr == reqs[i]
             r == Send(sr.requester, res[i])
             sends == Append(acc.trace, SendEvent(i, r.ErrType))
             err1 == RecordErr(acc.err, r, i)
             results == Append(acc.StepResults, r)
         IN IF r.ErrType = ErrorIntented
            THEN [acc EXCEPT !.err = err1, !.trace = sends, !.StepResults = results]
            ELSE DoLoopAppendFirstFrom(i + 1, reqs, res, nSteps,
                   [acc EXCEPT !.err = err1,
                               !.StepResults = results,
                               !.trace = IF ShouldSleep(sr.sleeper, nSteps)
                                         THEN Append(sends, SleepEvent(i))
                                         ELSE sends])

DoLoopAppendFirst(reqs, res, nSteps, acc) ==
    DoLoopAppendFirstFrom(1, reqs, res, nSteps, acc)

RECURSIVE DoLoopFrom(_, _, _, _, _)
DoLoopFrom(i, reqs, res, nSteps, acc) ==
    IF i > Len(reqs) THEN acc
    ELSE LET sr == reqs[i]
             r == Send(sr.requester, res[i])
             sends == Append(acc.trace, SendEvent(i, r.ErrType))
             err1 == RecordErr(acc.err, r, i)
         IN IF r.ErrType = ErrorIntented
            THEN [acc EXCEPT !.err = err1, !.trace = sends]
            ELSE DoLoopFrom(i + 1, reqs, res, nSteps,
                   [acc EXCEPT !.err = err1,
                               !.StepResults = Append(@, r),
                               !.trace = IF ShouldSleep(sr.sleeper, nSteps)
                                         THEN Append(sends, SleepEvent(i))
                                         ELSE sends])

DoLoop(reqs, res, nSteps, acc) == DoLoopFrom(1, reqs, res, nSteps, acc)

----
(***************************************************************************)
(* The scenario service.                                                   *)
(***************************************************************************)
\* The proxy sets Init is called with.
InitProxySets == {{}, {1}}

\* ScenarioService.Init with a scenario and proxies whose requesters all
\* build: every given proxy holds its full requester sequence.
SvcInit ==
    /\ scenario \in Scenarios
    /\ initProxies \in InitProxySets
    /\ clients = [p \in initProxies |->
                    [i \in 1..Len(scenario) |-> scenarioItemRequester(p, i, 1)]]
    /\ clientMutex = NoRunner
    /\ pc = [r \in Goroutines |-> "idle"]
    /\ doProxy = [r \in Goroutines |-> 0]
    /\ createIdx = [r \in Goroutines |-> 0]
    /\ createErr = [r \in Goroutines |-> FALSE]
    /\ requesters = [r \in Goroutines |-> <<>>]
    /\ lastDo = NoDo
    /\ lastDone = NoDone
    /\ constructed = [k \in Proxies \X (1..MaxSteps) |->
                        IF k[1] \in initProxies /\ k[2] <= Len(scenario) THEN 1 ELSE 0]
    /\ inited = [k \in Proxies \X (1..MaxSteps) |->
                        IF k[1] \in initProxies /\ k[2] <= Len(scenario) THEN 1 ELSE 0]
    /\ returned = {}

SleepIdle ==
    /\ sleepStr = <<>>
    /\ sleeper = NilSleeper
    /\ slept = -1
    /\ sleepPc = "off"

\* Do, lines 357-363: a fresh response, then the call of
\* getOrCreateRequesters(proxy).
DoCall(r, p) ==
    /\ pc[r] = "idle"
    /\ pc' = [pc EXCEPT ![r] = "lock"]
    /\ doProxy' = [doProxy EXCEPT ![r] = p]
    /\ lastDo' = IF r = Caller THEN NoDo ELSE lastDo
    /\ lastDone' = NoDone
    /\ UNCHANGED <<scenario, clients, clientMutex, createIdx, createErr,
                   requesters, initProxies, constructed, inited, returned>>
    /\ UNCHANGED nonSvcVars

MutexLockNoExclusion(m) == TRUE

\* sync.Mutex.Lock returns only when no goroutine holds the mutex.
MutexLock(m) == m = NoRunner

\* getOrCreateRequesters, line 396
Lock(r) ==
    /\ pc[r] = "lock"
    /\ MutexLock(clientMutex)
    /\ clientMutex' = r
    /\ pc' = [pc EXCEPT ![r] = "lookup"]
    /\ UNCHANGED <<scenario, clients, doProxy, createIdx, createErr, requesters,
                   lastDo, initProxies, lastDone, constructed, inited, returned>>
    /\ UNCHANGED nonSvcVars

\* getOrCreateRequesters, lines 399-400
Lookup(r) ==
    /\ pc[r] = "lookup"
    /\ pc' = [pc EXCEPT ![r] = IF doProxy[r] \in DOMAIN clients
                                THEN "return" ELSE "create"]
    /\ UNCHANGED <<scenario, clients, clientMutex, doProxy, createIdx, createErr,
                   requesters, lastDo, initProxies, lastDone, constructed, inited, returned>>
    /\ UNCHANGED nonSvcVars

\* createRequesters, line 410
CreateBegin(r) ==
    /\ pc[r] = "create"
    /\ clients' = [p \in DOMAIN clients \cup {doProxy[r]} |->
                     IF p = doProxy[r] THEN <<>> ELSE clients[p]]
    /\ createIdx' = [createIdx EXCEPT ![r] = 1]
    /\ pc' = [pc EXCEPT ![r] = "step"]
    /\ UNCHANGED <<scenario, clientMutex, doProxy, createErr, requesters, lastDo,
                   initProxies, lastDone, constructed, inited, returned>>
    /\ UNCHANGED nonSvcVars

\* createRequesters, lines 411-431: one iteration of the loop over the steps.
\* NewRequester and Requester.Init belong to the requester package; each
\* either succeeds or returns an error.
CreateStep(r) ==
    LET p == doProxy[r]
        i == createIdx[r]
        k == <<p, i>>
    IN /\ pc[r] = "step"
       /\ \/ \* NewRequester fails, line 415
             /\ createErr' = [createErr EXCEPT ![r] = TRUE]
             /\ pc' = [pc EXCEPT ![r] = "return"]
             /\ createIdx' = [createIdx EXCEPT ![r] = 0]
             /\ UNCHANGED <<clients, constructed, inited>>
          \/ \* Init fails, line 428
             /\ constructed' = [constructed EXCEPT ![k] = @ + 1]
             /\ clients' = [clients EXCEPT ![p] =
                   Append(@, scenarioItemRequester(p, i, constructed[k] + 1))]
             /\ createErr' = [createErr EXCEPT ![r] = TRUE]
             /\ pc' = [pc EXCEPT ![r] = "return"]
             /\ createIdx' = [createIdx EXCEPT ![r] = 0]
             /\ UNCHANGED inited
          \/ \* both succeed
             /\ constructed' = [constructed EXCEPT ![k] = @ + 1]
             /\ clients' = [clients EXCEPT ![p] =
                   Append(@, scenarioItemRequester(p, i, constructed[k] + 1))]
             /\ inited' = [inited EXCEPT ![k] = @ + 1]
             /\ createIdx' = [createIdx EXCEPT ![r] = IF i = NumSteps THEN 0 ELSE i + 1]
             /\ pc' = [pc EXCEPT ![r] = IF i = NumSteps THEN "return" ELSE "step"]
             /\ UNCHANGED createErr
       /\ UNCHANGED <<scenario, clientMutex, doProxy, requesters, lastDo,
                      initProxies, lastDone, returned>>
       /\ UNCHANGED nonSvcVars

AfterGetOrCreateIgnoreErr(failed) == "run"

\* Do, line 364: where Do goes on once getOrCreateRequesters has returned.
AfterGetOrCreate(failed) == IF failed THEN "fail" ELSE "run"

\* getOrCreateRequesters returns (lines 403 and 406) and its deferred Unlock
\* (line 397) runs.
Return(r) ==
    LET p == doProxy[r]
    IN /\ pc[r] = "return"
       /\ clientMutex' = NoRunner
       /\ returned' = returned \cup
              {[proxy |-> p, failed |-> createErr[r],
                reqs |-> IF createErr[r] THEN <<>> ELSE clients[p]]}
       /\ requesters' = [requesters EXCEPT ![r] =
                            IF createErr[r] THEN <<>> ELSE clients[p]]
       /\ pc' = [pc EXCEPT ![r] = AfterGetOrCreate(createErr[r])]
       /\ createErr' = [createErr EXCEPT ![r] = FALSE]
       /\ UNCHANGED <<scenario, clients, doProxy, createIdx, lastDo,
                      initProxies, lastDone, constructed, inited>>
       /\ UNCHANGED nonSvcVars

\* Do, lines 364-366: getOrCreateRequesters returned an error.
Fail(r) ==
    /\ pc[r] = "fail"
    /\ lastDo' = IF r = Caller
                 THEN [NoDo EXCEPT !.ran = TRUE, !.proxy = doProxy[r],
                                   !.err = [Type |-> ErrorUnkown, step |-> 0]]
                 ELSE lastDo
    /\ pc' = [pc EXCEPT ![r] = "idle"]
    /\ doProxy' = [doProxy EXCEPT ![r] = 0]
    /\ UNCHANGED <<scenario, clients, clientMutex, createIdx, createErr,
                   requesters, initProxies, lastDone, constructed, inited, returned>>
    /\ UNCHANGED nonSvcVars

\* Do, lines 368-385: the loop over the requesters and the return.
Run(r) ==
    /\ pc[r] = "run"
    /\ \E res \in [1..Len(requesters[r]) -> SendErrTypes] :
          lastDo' = IF r = Caller
                    THEN DoLoop(requesters[r], res, NumSteps,
                                [NoDo EXCEPT !.ran = TRUE, !.proxy = doProxy[r],
                                             !.nilResponse = FALSE])
                    ELSE lastDo
    /\ pc' = [pc EXCEPT ![r] = "idle"]
    /\ doProxy' = [doProxy EXCEPT ![r] = 0]
    /\ requesters' = [requesters EXCEPT ![r] = <<>>]
    /\ UNCHANGED <<scenario, clients, clientMutex, createIdx, createErr,
                   initProxies, lastDone, constructed, inited, returned>>
    /\ UNCHANGED nonSvcVars

\* Done, lines 389-391: the loop over one proxy's requesters v, from index
\* j; calls are the r.requester.Done() calls made so far, in order.
RECURSIVE DoneRequesters(_, _, _)
DoneRequesters(v, j, calls) ==
    IF j > Len(v) THEN calls
    ELSE DoneRequesters(v, j + 1, Append(calls, v[j].requester))

\* Done, lines 388-392: the loop over s.clients, visiting its keys in the
\* order keys, from index k.
RECURSIVE DoneClients(_, _, _, _)
DoneClients(cl, keys, k, calls) ==
    IF k > Len(keys) THEN calls
    ELSE DoneClients(cl, keys, k + 1, DoneRequesters(cl[keys[k]], 1, calls))

RangedKeysGivenToInit(cl, given) == given

\* line 388: the keys that range s.clients visits.
RangedKeys(cl, given) == DOMAIN cl

\* The orders a range over a map with the key set ks can visit them in.
MapOrders(ks) ==
    {o \in [1..Cardinality(ks) -> ks] : \A a, b \in DOMAIN o : o[a] = o[b] => a = b}

\* ScenarioService.Done, lines 387-393, called by r between its Do calls.
Done(r) ==
    /\ pc[r] = "idle"
    /\ \E keys \in MapOrders(RangedKeys(clients, initProxies)) :
          lastDone' = [ran |-> TRUE, calls |-> DoneClients(clients, keys, 1, <<>>)]
    /\ UNCHANGED <<scenario, clients, clientMutex, pc, doProxy, createIdx,
                   createErr, requesters, lastDo, initProxies, constructed,
                   inited, returned>>
    /\ UNCHANGED nonSvcVars

\* One goroutine's next step.
Step(r) ==
    \/ \E p \in Proxies : DoCall(r, p)
    \/ Lock(r)
    \/ Lookup(r)
    \/ CreateBegin(r)
    \/ CreateStep(r)
    \/ Return(r)
    \/ Fail(r)
    \/ Run(r)

\* No reporter: its variables stay as they are before stdout.Init.
RepOff ==
    /\ debug = FALSE
    /\ testMode = FALSE
    /\ input = <<>>
    /\ inputClosed = FALSE
    /\ sent = 0
    /\ spc = "off"
    /\ cur = 0
    /\ mu = "free"
    /\ result = <<>>
    /\ merging = FALSE
    /\ bgpc = "none"
    /\ printTicker = "nil"
    /\ tickC = 0
    /\ ticks = 0
    /\ pWaiting = 0
    /\ ppc = "none"
    /\ out = <<>>
    /\ doneCount = 0

Init == SvcInit /\ SleepIdle /\ RepOff
Next == Step(Caller) \/ Done(Caller)
Spec == Init /\ [][Next]_vars

PoolNext == \E r \in Runners : Step(r)
PoolSpec == Init /\ [][PoolNext]_vars

----
(***************************************************************************)
(* Sleepers on their own: newSleeper on a sleep string, then sleep().      *)
(***************************************************************************)
SleepChars == {"0", "3", "-"}
SleepStrings == UNION {[1..n -> SleepChars] : n \in 0..MaxSleepLen}

\* No scenario service: its variables stay as NewScenarioService leaves them.
SvcOff ==
    /\ scenario = <<>>
    /\ initProxies = {}
    /\ clients = <<>>
    /\ clientMutex = NoRunner
    /\ pc = [r \in Goroutines |-> "idle"]
    /\ doProxy = [r \in Goroutines |-> 0]
    /\ createIdx = [r \in Goroutines |-> 0]
    /\ createErr = [r \in Goroutines |-> FALSE]
    /\ requesters = [r \in Goroutines |-> <<>>]
    /\ lastDo = NoDo
    /\ lastDone = NoDone
    /\ constructed = [k \in Proxies \X (1..MaxSteps) |-> 0]
    /\ inited = [k \in Proxies \X (1..MaxSteps) |-> 0]
    /\ returned = {}

SleepInit ==
    /\ SvcOff
    /\ RepOff
    /\ sleepStr \in SleepStrings
    /\ sleeper = NilSleeper
    /\ slept = -1
    /\ sleepPc = "new"

\* sl = newSleeper(sleepStr)
NewSleeper ==
    /\ sleepPc = "new"
    /\ sleeper' = newSleeper(sleepStr)
    /\ sleepPc' = "built"
    /\ UNCHANGED <<sleepStr, slept, svcVars, repVars>>

\* sl.sleep(), as Do calls it on a sleeper that is not nil (line 380):
\* slept is the duration the call blocks for.
Sleep ==
    /\ sleepPc = "built"
    /\ sleeper # NilSleeper
    /\ \E dur \in SleepDurations(sleeper) : slept' = dur
    /\ sleepPc' = "asleep"
    /\ UNCHANGED <<sleepStr, sleeper, svcVars, repVars>>

\* time.Sleep returns, and with it sl.sleep()
Wake ==
    /\ sleepPc = "asleep"
    /\ sleepPc' = "built"
    /\ slept' = -1
    /\ UNCHANGED <<sleepStr, sleeper, svcVars, repVars>>

SleepNext == NewSleeper \/ Sleep \/ Wake
SleepSpec == SleepInit /\ [][SleepNext]_vars

----
(***************************************************************************)
(* The stdout reporter: Start on its goroutine, the producer of the input  *)
(* channel, the goroutine of realTimePrintStart, the ticker, the goroutines*)
(* the ticks spawn, and the receiver of doneChan.                          *)
(***************************************************************************)
\* stdout.Init(debug), and Start(input) just called.
RepInit ==
    /\ SvcOff
    /\ SleepIdle
    /\ debug \in BOOLEAN
    /\ testMode \in BOOLEAN
    /\ input = <<>>
    /\ inputClosed = FALSE
    /\ sent = 0
    /\ spc = "start"
    /\ cur = 0
    /\ mu = "free"
    /\ result = <<>>
    /\ merging = FALSE
    /\ bgpc = "none"
    /\ printTicker = "nil"
    /\ tickC = 0
    /\ ticks = 0
    /\ pWaiting = 0
    /\ ppc = "none"
    /\ out = <<>>
    /\ doneCount = 0

\* A nil dereference panics and the panic ends the process.
Alive == spc # "panicked"

RangeEndsWhenEmpty(ch, closed) == ch = <<>>

\* for r := range ch ends once ch is closed and drained (lines 85, 145).
RangeEnds(ch, closed) == ch = <<>> /\ closed

muLockNoExclusion(m) == TRUE

\* s.mu.Lock() returns only when no goroutine holds s.mu (lines 86, 116).
muLock(m) == m = "free"

\* The engine sends a ScenarioResult on input.
Produce ==
    /\ Alive
    /\ ~inputClosed
    /\ sent < MaxResults
    /\ Len(input) < ChanCap
    /\ sent' = sent + 1
    /\ input' = Append(input, sent + 1)
    /\ UNCHANGED <<debug, testMode, inputClosed, spc, cur, mu, result, merging,
                   bgpc, printTicker, tickC, ticks, pWaiting, ppc, out, doneCount>>
    /\ UNCHANGED <<svcVars, sleepVars>>

\* The engine closes input.
Close ==
    /\ Alive
    /\ ~inputClosed
    /\ inputClosed' = TRUE
    /\ UNCHANGED <<debug, testMode, input, sent, spc, cur, mu, result, merging,
                   bgpc, printTicker, tickC, ticks, pWaiting, ppc, out, doneCount>>
    /\ UNCHANGED <<svcVars, sleepVars>>

\* Start, lines 78-83: the mode, and in streaming mode the go statement.
StartEnter ==
    /\ spc = "start"
    /\ IF debug
       THEN spc' = "debugRange" /\ UNCHANGED bgpc
       ELSE spc' = "range" /\ bgpc' = "entry"
    /\ UNCHANGED <<debug, testMode, input, inputClosed, sent, cur, mu, result,
                   merging, printTicker, tickC, ticks, pWaiting, ppc, out,
                   doneCount>>
    /\ UNCHANGED <<svcVars, sleepVars>>

\* printInDebugMode, lines 145-184: one iteration, the transcript of r.
DebugReceive ==
    /\ spc = "debugRange"
    /\ input # <<>>
    /\ input' = Tail(input)
    /\ cur' = Head(input)
    /\ out' = Append(out, [op |-> "transcript", r |-> Head(input)])
    /\ UNCHANGED <<debug, testMode, inputClosed, sent, spc, mu, result, merging,
                   bgpc, printTicker, tickC, ticks, pWaiting, ppc, doneCount>>
    /\ UNCHANGED <<svcVars, sleepVars>>

\* printInDebugMode's loop ends and it returns (line 185).
DebugRangeEnd ==
    /\ spc = "debugRange"
    /\ RangeEnds(input, inputClosed)
    /\ spc' = "sendDone"
    /\ UNCHANGED <<debug, testMode, input, inputClosed, sent, cur, mu, result,
                   merging, bgpc, printTicker, tickC, ticks, pWaiting, ppc, out,
                   doneCount>>
    /\ UNCHANGED <<svcVars, sleepVars>>

\* Start, line 85: r received from input.
Receive ==
    /\ spc = "range"
    /\ Alive
    /\ input # <<>>
    /\ input' = Tail(input)
    /\ cur' = Head(input)
    /\ spc' = "lock"
    /\ UNCHANGED <<debug, testMode, inputClosed, sent, mu, result, merging, bgpc,
                   printTicker, tickC, ticks, pWaiting, ppc, out, doneCount>>
    /\ UNCHANGED <<svcVars, sleepVars>>

\* Start, line 86
StartLock ==
    /\ spc = "lock"
    /\ muLock(mu)
    /\ mu' = "start"
    /\ spc' = "aggregate"
    /\ UNCHANGED <<debug, testMode, input, inputClosed, sent, cur, result,
                   merging, bgpc, printTicker, tickC, ticks, pWaiting, ppc, out,
                   doneCount>>
    /\ UNCHANGED <<svcVars, sleepVars>>

\* Start, line 87: aggregate(s.result, r) starts writing s.result.
AggregateBegin ==
    /\ spc = "aggregate"
    /\ ~merging
    /\ merging' = TRUE
    /\ UNCHANGED <<debug, testMode, input, inputClosed, sent, spc, cur, mu,
                   result, bgpc, printTicker, tickC, ticks, pWaiting, ppc, out,
                   doneCount>>
    /\ UNCHANGED <<svcVars, sleepVars>>

\* Start, line 87: aggregate's last write; r is merged.
AggregateEnd ==
    /\ spc = "aggregate"
    /\ merging
    /\ merging' = FALSE
    /\ result' = Append(result, cur)
    /\ spc' = "unlock"
    /\ UNCHANGED <<debug, testMode, input, inputClosed, sent, cur, mu, bgpc,
                   printTicker, tickC, ticks, pWaiting, ppc, out, doneCount>>
    /\ UNCHANGED <<svcVars, sleepVars>>

\* Start, line 88
StartUnlock ==
    /\ spc = "unlock"
    /\ mu' = "free"
    /\ spc' = "range"
    /\ UNCHANGED <<debug, testMode, input, inputClosed, sent, cur, result,
                   merging, bgpc, printTicker, tickC, ticks, pWaiting, ppc, out,
                   doneCount>>
    /\ UNCHANGED <<svcVars, sleepVars>>

\* Start, line 85 ends; realTimePrintStop, lines 133-137: nothing in test
\* mode, else the last liveResultPrint, without s.mu.
RangeEndLastPrint ==
    /\ spc = "range"
    /\ Alive
    /\ RangeEnds(input, inputClosed)
    /\ IF testMode
       THEN spc' = "report" /\ UNCHANGED out
       ELSE /\ spc' = "stopTicker"
            /\ out' = Append(out, [op |-> "lastLive", r |-> Len(result)])
    /\ UNCHANGED <<debug, testMode, input, inputClosed, sent, cur, mu, result,
                   merging, bgpc, printTicker, tickC, ticks, pWaiting, ppc,
                   doneCount>>
    /\ UNCHANGED <<svcVars, sleepVars>>

\* realTimePrintStop, line 138: s.printTicker.Stop(); a nil s.printTicker
\* is dereferenced and the goroutine panics.
StopTicker ==
    /\ spc = "stopTicker"
    /\ IF printTicker = "nil"
       THEN spc' = "panicked" /\ UNCHANGED printTicker
       ELSE spc' = "report" /\ printTicker' = "stopped"
    /\ UNCHANGED <<debug, testMode, input, inputClosed, sent, cur, mu, result,
                   merging, bgpc, tickC, ticks, pWaiting, ppc, out, doneCount>>
    /\ UNCHANGED <<svcVars, sleepVars>>

\* Start, line 92: report() prints the details of s.result, without s.mu.
Report ==
    /\ spc = "report"
    /\ out' = Append(out, [op |-> "report", r |-> Len(result)])
    /\ spc' = "sendDone"
    /\ UNCHANGED <<debug, testMode, input, inputClosed, sent, cur, mu, result,
                   merging, bgpc, printTicker, tickC, ticks, pWaiting, ppc,
                   doneCount>>
    /\ UNCHANGED <<svcVars, sleepVars>>

\* Start, lines 80 and 93: the send on the unbuffered doneChan completes with
\* the receive of the caller (DoneChan), and Start returns.
SendDone ==
    /\ spc = "sendDone"
    /\ Alive
    /\ doneCount' = doneCount + 1
    /\ spc' = "returned"
    /\ UNCHANGED <<debug, testMode, input, inputClosed, sent, cur, mu, result,
                   merging, bgpc, printTicker, tickC, ticks, pWaiting, ppc, out>>
    /\ UNCHANGED <<svcVars, sleepVars>>

\* realTimePrintStart, lines 105-112: return in test mode, else the ticker.
NewTicker ==
    /\ bgpc = "entry"
    /\ Alive
    /\ IF testMode
       THEN bgpc' = "returned" /\ UNCHANGED printTicker
       ELSE bgpc' = "loop" /\ printTicker' = "running"
    /\ UNCHANGED <<debug, testMode, input, inputClosed, sent, spc, cur, mu,
                   result, merging, tickC, ticks, pWaiting, ppc, out, doneCount>>
    /\ UNCHANGED <<svcVars, sleepVars>>

\* The running ticker fires: a tick goes into its channel when there is room.
Tick ==
    /\ Alive
    /\ printTicker = "running"
    /\ ticks < MaxTicks
    /\ tickC = 0
    /\ tickC' = 1
    /\ ticks' = ticks + 1
    /\ UNCHANGED <<debug, testMode, input, inputClosed, sent, spc, cur, mu,
                   result, merging, bgpc, printTicker, pWaiting, ppc, out,
                   doneCount>>
    /\ UNCHANGED <<svcVars, sleepVars>>

\* realTimePrintStart, lines 114-115: a tick received, a goroutine started.
TickReceive ==
    /\ bgpc = "loop"
    /\ Alive
    /\ tickC = 1
    /\ tickC' = 0
    /\ pWaiting' = pWaiting + 1
    /\ UNCHANGED <<debug, testMode, input, inputClosed, sent, spc, cur, mu,
                   result, merging, bgpc, printTicker, ticks, ppc, out, doneCount>>
    /\ UNCHANGED <<svcVars, sleepVars>>

PrinterNoLock ==
    /\ Alive
    /\ pWaiting > 0
    /\ ppc = "none"
    /\ pWaiting' = pWaiting - 1
    /\ ppc' = "locked"
    /\ UNCHANGED <<debug, testMode, input, inputClosed, sent, spc, cur, mu,
                   result, merging, bgpc, printTicker, tickC, ticks, out,
                   doneCount>>
    /\ UNCHANGED <<svcVars, sleepVars>>

\* line 116
PrinterLock ==
    /\ Alive
    /\ pWaiting > 0
    /\ muLock(mu)
    /\ mu' = "printer"
    /\ pWaiting' = pWaiting - 1
    /\ ppc' = "locked"
    /\ UNCHANGED <<debug, testMode, input, inputClosed, sent, spc, cur, result,
                   merging, bgpc, printTicker, tickC, ticks, out, doneCount>>
    /\ UNCHANGED <<svcVars, sleepVars>>

\* line 117: liveResultPrint
PrinterPrint ==
    /\ Alive
    /\ ppc = "locked"
    /\ out' = Append(out, [op |-> "live", r |-> Len(result)])
    /\ ppc' = "printed"
    /\ UNCHANGED <<debug, testMode, input, inputClosed, sent, spc, cur, mu,
                   result, merging, bgpc, printTicker, tickC, ticks, pWaiting,
                   doneCount>>
    /\ UNCHANGED <<svcVars, sleepVars>>

PrinterNoUnlock ==
    /\ Alive
    /\ ppc = "printed"
    /\ ppc' = "returned"
    /\ UNCHANGED <<debug, testMode, input, inputClosed, sent, spc, cur, mu,
                   result, merging, bgpc, printTicker, tickC, ticks, pWaiting,
                   out, doneCount>>
    /\ UNCHANGED <<svcVars, sleepVars>>

\* line 118
PrinterUnlock ==
    /\ Alive
    /\ ppc = "printed"
    /\ mu' = "free"
    /\ ppc' = "none"
    /\ UNCHANGED <<debug, testMode, input, inputClosed, sent, spc, cur, result,
                   merging, bgpc, printTicker, tickC, ticks, pWaiting, out,
                   doneCount>>
    /\ UNCHANGED <<svcVars, sleepVars>>

RepNext ==
    \/ Produce
    \/ Close
    \/ StartEnter
    \/ DebugReceive
    \/ DebugRangeEnd
    \/ Receive
    \/ StartLock
    \/ AggregateBegin
    \/ AggregateEnd
    \/ StartUnlock
    \/ RangeEndLastPrint
    \/ StopTicker
    \/ Report
    \/ SendDone
    \/ NewTicker
    \/ Tick
    \/ TickReceive
    \/ PrinterLock
    \/ PrinterPrint
    \/ PrinterUnlock

RepSpec == RepInit /\ [][RepNext]_vars

\* The scheduler runs every goroutine that can take a step, sync.Mutex hands
\* the lock to a goroutine that keeps waiting for it, and the caller of
\* Start receives from DoneChan. Nothing is assumed of the engine (Produce,
\* Close) nor of the clock (Tick).
StartSteps ==
    \/ StartEnter \/ DebugReceive \/ DebugRangeEnd \/ Receive
    \/ AggregateBegin \/ AggregateEnd \/ StartUnlock \/ RangeEndLastPrint
    \/ StopTicker \/ Report
FairRepSpec ==
    /\ RepSpec
    /\ WF_vars(StartSteps)
    /\ SF_vars(StartLock)
    /\ WF_vars(SendDone)
    /\ WF_vars(NewTicker \/ TickReceive)
    /\ SF_vars(PrinterLock)
    /\ WF_vars(PrinterPrint \/ PrinterUnlock)

----
(***************************************************************************)
(* Claims about Do (Spec).                                                 *)
(***************************************************************************)
Events == {lastDo.trace[j] : j \in 1..Len(lastDo.trace)}
SentSteps == {e.idx : e \in {x \in Events : x.op = "send"}}
SleptSteps == {e.idx : e \in {x \in Events : x.op = "sleep"}}
NoIntended == \A k \in 1..NumSteps : SendEvent(k, ErrorIntented) \notin Events
DoReturned == lastDo.ran /\ ~lastDo.nilResponse
ResultIDs == [i \in 1..Len(lastDo.StepResults) |-> lastDo.StepResults[i].StepID]
ScenarioIDs(n) == [i \in 1..n |-> scenario[i].ID]

\* C1 as claimed: when the requester of step k returns an Intended error, the
\* ScenarioResult holds exactly k StepResults and no step after k is sent.
C1_IntendedKeepsK ==
    DoReturned =>
        \A k \in 1..NumSteps :
            SendEvent(k, ErrorIntented) \in Events =>
                /\ Len(lastDo.StepResults) = k
                /\ \A j \in SentSteps : j <= k

\* C1 as amended: when the requester of step k returns an Intended error, the
\* ScenarioResult holds exactly the k-1 StepResults of the steps before k
\* (the result of step k is dropped), the Intended error is the returned
\* error, and no step after k is sent.
C1_IntendedDropsStepK ==
    DoReturned =>
        \A k \in 1..NumSteps :
            SendEvent(k, ErrorIntented) \in Events =>
                /\ Len(lastDo.StepResults) = k - 1
                /\ ResultIDs = ScenarioIDs(k - 1)
                /\ lastDo.err = [Type |-> ErrorIntented, step |-> k]
                /\ \A j \in SentSteps : j <= k

C1_Witness ==
    /\ DoReturned
    /\ NumSteps >= 2
    /\ SendEvent(2, ErrorIntented) \in Events
    /\ Len(lastDo.StepResults) = 1

\* C2: with more than one step and no Intended error, every Do call that
\* returns a ScenarioResult returns exactly the N StepResults of the
\* scenario's steps, in scenario order, also after a failed build.
C2_AllStepsInOrder ==
    (DoReturned /\ NumSteps > 1 /\ NoIntended) =>
        ResultIDs = ScenarioIDs(NumSteps)

\* C3: after a Proxy error on step k the run goes on: absent an Intended
\* error all N steps are sent and appear in the ScenarioResult, and the
\* returned error is not nil.
C3_ProxyErrorGoesOn ==
    DoReturned =>
        \A k \in 1..NumSteps :
            SendEvent(k, ErrorProxy) \in Events =>
                /\ lastDo.err # NilError
                /\ NoIntended =>
                      /\ SentSteps = 1..NumSteps
                      /\ ResultIDs = ScenarioIDs(NumSteps)

\* C4: with more than one step no sleep follows the last step's Send: the
\* run makes at most N-1 sleeps, each after a step i < N.
C4_NoSleepAfterLastStep ==
    (lastDo.ran /\ NumSteps > 1) =>
        /\ NumSteps \notin SleptSteps
        /\ Cardinality(SleptSteps) <= NumSteps - 1

\* C5: with exactly one step no Do call sleeps, whatever the step's sleep
\* string.
C5_SingleStepNeverSleeps ==
    (lastDo.ran /\ NumSteps = 1) => SleptSteps = {}

C5_Witness ==
    /\ DoReturned
    /\ NumSteps = 1
    /\ scenario[1].Sleep = <<"3", "-", "1">>
    /\ SentSteps = {1}
    /\ Len(lastDo.StepResults) = 1

\* The steps whose Send returned a Proxy or an Intended error in the call.
ErrSends == {e \in Events : e.op = "send" /\ e.res \in {ErrorProxy, ErrorIntented}}
LastErrSend == CHOOSE e \in ErrSends : \A f \in ErrSends : f.idx <= e.idx

DoFailed ==
    /\ lastDo.ran
    /\ lastDo.nilResponse
    /\ lastDo.StepResults = <<>>
    /\ lastDo.err = [Type |-> ErrorUnkown, step |-> 0]
    /\ lastDo.trace = <<>>

C13_ResultsArePrefix ==
    DoReturned =>
        /\ Len(lastDo.StepResults) <= NumSteps
        /\ ResultIDs = ScenarioIDs(Len(lastDo.StepResults))

\* A run cut short by an Intended error, after a step that failed otherwise.
C13_Witness ==
    /\ DoReturned
    /\ NumSteps = 2
    /\ lastDo.trace[1] = SendEvent(1, ErrorConn)
    /\ SendEvent(2, ErrorIntented) \in Events
    /\ ResultIDs = <<StepID(1)>>

\* A run over every step of a pool entry built lazily.
FullRunOnLazyPool ==
    /\ DoReturned
    /\ NumSteps = 2
    /\ lastDo.proxy \notin initProxies
    /\ ResultIDs = <<StepID(1), StepID(2)>>

----
(***************************************************************************)
(* Claims about the requester pool (PoolSpec).                             *)
(***************************************************************************)
ReturnedFor(p) == {rec \in returned : rec.proxy = p}

\* C6 as claimed: once getOrCreateRequesters calls for a proxy have returned,
\* exactly one requester has been constructed and initialised per step, and
\* all the callers received the same sequence.
C6_ExactlyOncePerStep ==
    \A p \in Proxies :
        ReturnedFor(p) # {} =>
            /\ \A i \in 1..NumSteps :
                  constructed[<<p, i>>] = 1 /\ inited[<<p, i>>] = 1
            /\ \A a, b \in ReturnedFor(p) : a = b

\* C6 as amended: under every interleaving at most one requester is
\* constructed and initialised per step and proxy, exactly one per step when
\* no call for the proxy returned an error; the callers that get no error
\* all receive the same sequence, which is the cached one and stays so.
C6_AtMostOncePerStep ==
    \A p \in Proxies :
        /\ \A i \in 1..MaxSteps :
              constructed[<<p, i>>] <= 1 /\ inited[<<p, i>>] <= 1
        /\ (ReturnedFor(p) # {} /\ \A rec \in ReturnedFor(p) : ~rec.failed) =>
              \A i \in 1..NumSteps :
                  constructed[<<p, i>>] = 1 /\ inited[<<p, i>>] = 1
        /\ \A a, b \in ReturnedFor(p) :
              (~a.failed /\ ~b.failed) => a.reqs = b.reqs
        /\ \A a \in ReturnedFor(p) :
              ~a.failed => (p \in DOMAIN clients /\ clients[p] = a.reqs)

C6_Witness ==
    \E p \in Proxies \ initProxies :
        /\ \A r \in Runners : pc[r] = "run" /\ doProxy[r] = p
        /\ \A r \in Runners : requesters[r] = clients[p]
        /\ Len(clients[p]) = NumSteps
        /\ NumSteps >= 2
        /\ \A rec \in ReturnedFor(p) : ~rec.failed

\* C7: once a call that failed to build the requesters of a proxy has
\* returned, the pool holds no entry for it, and no later call returns,
\* without an error, a sequence shorter than the scenario.
C7_FailedBuildLeavesNoEntry ==
    /\ \A rec \in returned :
          (rec.failed /\ \A r \in Goroutines : doProxy[r] # rec.proxy) =>
              rec.proxy \notin DOMAIN clients
    /\ \A rec \in returned : ~rec.failed => Len(rec.reqs) = NumSteps

\* The requesters the pool holds, and how often the last Done call called
\* Done() on requester rq.
PoolRequesters ==
    {clients[p][i].requester : <<p, i>> \in
        {k \in (DOMAIN clients) \X (1..MaxSteps) : k[2] <= Len(clients[k[1]])}}
DoneCallsOn(rq) ==
    Cardinality({j \in 1..Len(lastDone.calls) : lastDone.calls[j] = rq})

DoneOverPartialEntry ==
    /\ lastDone.ran
    /\ NumSteps >= 2
    /\ \E p \in DOMAIN clients : Len(clients[p]) = 1 /\ Len(lastDone.calls) >= 1

----
(***************************************************************************)
(* Claims about the stdout reporter (RepSpec, FairRepSpec).                *)
(***************************************************************************)
Printed(op) == {j \in 1..Len(out) : out[j].op = op}
Transcripts == SelectSeq(out, LAMBDA e : e.op = "transcript")
TranscribedIDs == [j \in 1..Len(Transcripts) |-> Transcripts[j].r]
UpTo(n) == [j \in 1..n |-> j]

\* What the done signal comes after: input closed and drained, every result
\* sent merged once (transcribed in debug mode), the report written.
DoneAfterDrain ==
    /\ doneCount <= 1
    /\ doneCount = 1 =>
          /\ inputClosed /\ input = <<>>
          /\ IF debug
             THEN TranscribedIDs = UpTo(sent) /\ result = <<>>
             ELSE result = UpTo(sent) /\ Cardinality(Printed("report")) = 1

\* C8: the done signal is emitted once, only after the input is closed, all
\* its results are consumed and the report is written; and once the input
\* is closed, Start emits the signal to the receiving caller and returns.
C8_DoneOnceAndEventually ==
    /\ []DoneAfterDrain
    /\ [](inputClosed => <>(doneCount = 1 /\ spc = "returned"))

\* C9 as claimed: in debug mode one ScenarioResult is consumed, no more.
C9_DebugConsumesOne ==
    debug => Len(Transcripts) <= 1

\* C9 as amended: in debug mode the reporter consumes every ScenarioResult
\* sent on the input, printing their transcripts in arrival order and merging
\* none, until the input is closed; it emits the done signal only then.
C9_DebugConsumesAllUntilClose ==
    debug =>
        /\ TranscribedIDs = UpTo(sent - Len(input))
        /\ result = <<>>
        /\ spc \in {"sendDone", "returned"} =>
              (inputClosed /\ TranscribedIDs = UpTo(sent))
        /\ doneCount = 1 => spc = "returned"

C9_Witness ==
    /\ debug
    /\ spc = "returned"
    /\ doneCount = 1
    /\ sent >= 2
    /\ TranscribedIDs = UpTo(sent)

Streaming == ~debug
\* A step that prints a line of kind op.
Prints(op) == out' # out /\ out'[Len(out')].op = op
\* A step of aggregate that writes s.result.
MergeStep == merging' # merging \/ result' # result
\* No tick-triggered live line is printed after a line of kind op.
NoLiveAfter(op) ==
    \A j \in Printed(op) : \A k \in Printed("live") : k < j

\* C14: in streaming mode no live overview line is printed once the report
\* has started nor once the done signal is emitted, and once done is emitted
\* the goroutine of realTimePrintStart has returned or goes on to return.
C14_PrintLoopStoppedAtDone ==
    /\ [](Streaming => NoLiveAfter("report"))
    /\ [][(Streaming /\ doneCount = 1) => out' = out]_vars
    /\ []((Streaming /\ doneCount = 1) => <>(bgpc = "returned"))

\* C15: at the end of the input, in streaming mode, the ticker is stopped,
\* then exactly one final live line is printed, then the report; no tick
\* fires and no tick-triggered live line is printed after the final live line.
C15_StopThenLastLineThenReport ==
    /\ []((Streaming /\ Printed("lastLive") # {}) => printTicker = "stopped")
    /\ [](Streaming => Cardinality(Printed("lastLive")) <= 1)
    /\ []((Streaming /\ ~testMode /\ Printed("report") # {}) =>
              /\ Cardinality(Printed("lastLive")) = 1
              /\ \A j \in Printed("lastLive") : \A k \in Printed("report") : j < k)
    /\ [](Streaming => NoLiveAfter("lastLive"))
    /\ [][ticks' # ticks => Printed("lastLive") = {}]_vars

\* C16 as claimed: every merge, every tick print, the final live print and
\* the report are made by a goroutine that holds s.mu.
C16_AllAccessUnderLock ==
    [][/\ MergeStep => mu = "start"
       /\ Prints("live") => mu = "printer"
       /\ (Prints("lastLive") \/ Prints("report")) => mu = "start"
      ]_vars

\* C16 as amended: every merge is made by Start while it holds s.mu and
\* every tick print by a goroutine that holds s.mu; the final live print and
\* the report are made by Start without s.mu, after the input is closed and
\* drained and every result sent is merged, so that no writer is left.
C16_MergesAndTickPrintsUnderLock ==
    [][/\ MergeStep => (mu = "start" /\ mu' = "start")
       /\ Prints("live") => (mu = "printer" /\ mu' = "printer")
       /\ (Prints("lastLive") \/ Prints("report")) =>
              /\ mu # "start"
              /\ ~merging
              /\ RangeEnds(input, inputClosed)
              /\ result = UpTo(sent)
      ]_vars

\* The report written after merges and a tick print, while a goroutine of a
\* later tick holds s.mu.
C16_Witness ==
    /\ Streaming
    /\ Printed("report") # {}
    /\ Printed("live") # {}
    /\ Len(result) >= 2
    /\ mu = "printer"

\* A tick waits in the ticker's channel for the loop of line 114.
TickPending == Alive /\ bgpc = "loop" /\ tickC = 1

\* C17: the loop that receives the ticks never waits for s.mu: a pending
\* tick can be received whoever holds the lock and however many tick prints
\* wait for it; a tick print that took the lock releases it, and Start,
\* waiting for the lock to merge, gets it.
C17_TicksFireAndForget ==
    /\ [](TickPending => ENABLED TickReceive)
    /\ [](TickPending => <>(tickC = 0))
    /\ [](mu = "printer" => <>(mu # "printer"))
    /\ [](spc = "lock" => <>(spc = "aggregate"))

\* Two ticks received while Start holds the lock in a merge: both tick
\* prints wait, the loop does not.
C17_Witness ==
    /\ pWaiting = 2
    /\ mu = "start"
    /\ merging
    /\ bgpc = "loop"

\* C19: Start never executes s.printTicker.Stop() on a nil s.printTicker:
\* the ticker is stored before realTimePrintStop stops it.
C19_TickerSetBeforeStop ==
    /\ spc # "panicked"
    /\ (Streaming /\ ~testMode /\ spc \in {"report", "sendDone", "returned"}) =>
          printTicker = "stopped"

\* C20: while aggregate is between its first and its last write, Start is
\* inside it holding s.mu, no tick print holds the lock, and no line is
\* printed from s.result, by a tick print, the final live print or the report.
C20_NoReadDuringMerge ==
    /\ [](merging => (spc = "aggregate" /\ mu = "start" /\ ppc = "none"))
    /\ [][(Prints("live") \/ Prints("lastLive") \/ Prints("report")) =>
              (~merging /\ ~merging')]_vars

\* A merge in progress while a tick print waits for the lock, after an
\* earlier tick print and an earlier merge.
C20_Witness ==
    /\ merging
    /\ pWaiting >= 1
    /\ Printed("live") # {}
    /\ Len(result) >= 1

----
(***************************************************************************)
(* Claims about the sleepers (SleepSpec).                                  *)
(***************************************************************************)
SleepParts == Split(sleepStr, "-")
SwappedSleepStr == SleepParts[2] \o <<"-">> \o SleepParts[1]
SpecLow == IF Atoi(SleepParts[1]) <= Atoi(SleepParts[2])
           THEN Atoi(SleepParts[1]) ELSE Atoi(SleepParts[2])
SpecHigh == IF Atoi(SleepParts[1]) <= Atoi(SleepParts[2])
            THEN Atoi(SleepParts[2]) ELSE Atoi(SleepParts[1])

\* C10: the sleeper built from "a-b" is the RangeSleep with min <= max that
\* "b-a" builds too, and every duration it draws lies in [min, max].
C10_RangeSwapsAndStaysInside ==
    (sleepPc # "new" /\ Len(SleepParts) = 2) =>
        /\ sleeper = [type |-> "RangeSleep", min |-> SpecLow, max |-> SpecHigh]
        /\ sleeper.min <= sleeper.max
        /\ sleeper = newSleeper(SwappedSleepStr)
        /\ slept # -1 => (SpecLow <= slept /\ slept <= SpecHigh)

\* A range given as max-min whose sleep drew its upper endpoint.
C10_Witness ==
    /\ sleepPc = "asleep"
    /\ Len(SleepParts) = 2
    /\ Atoi(SleepParts[1]) > Atoi(SleepParts[2])
    /\ slept = Atoi(SleepParts[1])

\* The same range with its lower endpoint drawn.
RangeLowEndpointDrawn ==
    /\ sleepPc = "asleep"
    /\ Len(SleepParts) = 2
    /\ Atoi(SleepParts[1]) > Atoi(SleepParts[2])
    /\ slept = Atoi(SleepParts[2])

====
